---------------------------- MODULE Spec2Model ----------------------------
(***************************************************************************)
(* A model of rest_framework_json_api.parsers.JSONParser: the parse of a   *)
(* JSON:API request document into the record(s) a DRF serializer takes,    *)
(* with the resolution of relationship linkages against `included`.        *)
(*                                                                         *)
(* Python values are modelled as follows.                                  *)
(*   - a dict is a function whose domain is the set of its keys;           *)
(*   - a JSON string is a string; None is the token PyNone;                *)
(*   - a value that may be of several Python types is a record whose one   *)
(*     field names the type: [dict |-> d], [list |-> <<...>>], [str |-> s] *)
(*     or [null |-> None]; so is the `data` member of a relationship (its  *)
(*     linkage): [null |-> None], [dict |-> target] or [list |-> targets]; *)
(*   - a target is either a resource identifier dict written in the        *)
(*     document, or a reference [ref |-> address] to a dict on the heap:   *)
(*     two references are the same object iff their addresses are equal.   *)
(* The heap holds the elements of `included` (address i is the i-th        *)
(* element) and the dicts create_included_map builds (fresh addresses).    *)
(***************************************************************************)
EXTENDS Integers, Sequences, FiniteSets, TLC

VARIABLES
    result,          \* the decoded document (parse, line 139)
    parser_context,  \* [view, method, resource_name]
    format_keys,     \* settings.JSON_API_FORMAT_KEYS
    heap,            \* address -> dict: the objects that are shared by reference
    naive_map,       \* create_naive_included_map's dict: (type, id) -> address
    included_map,    \* create_included_map's dict: (type, id) -> address
    todo,            \* keys the running loop over naive_map has not visited yet
    i,               \* position of the running loop over the primary data
    parsed_data,     \* the records built so far
    returned,        \* what parse returned
    error,           \* the exception parse raised
    pc

vars == <<result, parser_context, format_keys, heap, naive_map, included_map,
          todo, i, parsed_data, returned, error, pc>>

-----------------------------------------------------------------------------
(* Bounds of the explored documents. *)

MaxIncluded == 2

MaxBatch == 2

-----------------------------------------------------------------------------
(* Python dict and value helpers. *)

PyNone == "<None>"

EmptyDict == [key \in {} |-> PyNone]

\* dict.get(key): None when the key is absent
Get(d, key) == IF key \in DOMAIN d THEN d[key] ELSE PyNone

\* d1.update(d2): the keys of d2 win
Update(d1, d2) ==
    [key \in DOMAIN d1 \cup DOMAIN d2 |-> IF key \in DOMAIN d2 THEN d2[key] ELSE d1[key]]

\* truth value of a string or None
Truthy(v) == v \notin {PyNone, ""}

\* truth value of d.get(key) when the member is a dict: present and not empty
TruthyDict(d, key) == key \in DOMAIN d /\ DOMAIN d[key] # {}

\* x != y between typed values: values of different Python types are unequal
PyNotEqual(x, y) == DOMAIN x # DOMAIN y \/ x # y

IsDict(value) == DOMAIN value = {"dict"}

IsList(value) == DOMAIN value = {"list"}

SeqsUpTo(S, n) == UNION {[1..m -> S] : m \in 0..n}

Range(s) == {s[n] : n \in DOMAIN s}

IsRef(target) == DOMAIN target = {"ref"}

Ref(address) == [ref |-> address]


-----------------------------------------------------------------------------
(* The documents and request contexts parse is explored on. *)

Identifier(type, id) == [type |-> type, id |-> id]

ToOne(target) == [data |-> [dict |-> target]]

ToMany(targets) == [data |-> [list |-> targets]]

ToNull == [data |-> [null |-> PyNone]]

\* The identifiers of the resources a document may side-load.
IncludedKeys == {Identifier("a", "1"), Identifier("b", "2")}

\* Elements of `included`: resources that link to themselves, to each other,
\* to a resource that is not included, or to nothing; resources with
\* attributes; and two elements that lack `id` or `type`.
IncludedObjects ==
    {Update(key, [relationships |-> rels]) :
        key \in IncludedKeys,
        rels \in {[peer |-> ToOne(Identifier("a", "1"))],
                  [peer |-> ToOne(Identifier("b", "2"))],
                  [peers |-> ToMany(<<Identifier("b", "2"), Identifier("c", "9")>>)],
                  [peer |-> ToNull]}}
    \cup {Update(key, [attributes |-> attrs]) :
        key \in IncludedKeys,
        attrs \in {[name |-> "Dan"], [type |-> "x"]}}
    \cup {[type |-> "a"], [id |-> "1"]}

\* Primary resource objects: with and without `id`, with attributes named
\* like the members of a resource object or written with a dash, with
\* to-one, to-many and null relationships to included and to absent resources.
PrimaryObjects ==
    { [type |-> "a", id |-> "1", attributes |-> [title |-> "T"],
       relationships |-> [author |-> ToOne(Identifier("b", "2"))]],
      [type |-> "b", attributes |-> ("first-name" :> "J"),
       relationships |-> [author |-> ToOne(Identifier("c", "9"))]],
      [type |-> "a", id |-> "2", attributes |-> [type |-> "x"]],
      [type |-> "b", id |-> "1",
       relationships |-> [authors |-> ToMany(<<Identifier("a", "1"), Identifier("c", "9")>>)]],
      [type |-> "c", id |-> "1",
       relationships |-> [author |-> ToNull, editor |-> ToOne([type |-> "a"])]],
      [type |-> "a", attributes |-> [id |-> "7"]] }

\* Primary data of a relationship endpoint: resource identifier objects whose
\* `id` and `type` are present, empty, null or missing.
IdentifierObjects ==
    {Identifier(type, id) : type \in {"tags", ""}, id \in {"1", "", PyNone}}
    \cup {[type |-> "tags"], [id |-> "1"]}

One(obj) == [dict |-> obj]

Many(objs) == [list |-> objs]

Methods == {"GET", "POST", "PUT", "PATCH"}

\* utils.get_resource_name(parser_context, expand_polymorphic_types=True):
\* one name, or the names of a polymorphic endpoint
ResourceNames ==
    {[str |-> "a"], [str |-> "b"], [list |-> <<"a", "b">>]}

ResourceView(method, resource_name) ==
    [view |-> "ResourceView", method |-> method, resource_name |-> resource_name]

\* Compound documents: one primary resource and up to MaxIncluded side-loaded ones.
CompoundInputs ==
    {[document |-> [data |-> One(obj), included |-> included],
      context |-> ResourceView("GET", [str |-> "a"]),
      format_keys |-> FALSE] :
        obj \in PrimaryObjects, included \in SeqsUpTo(IncludedObjects, MaxIncluded)}

\* Requests on every method and kind of endpoint: one resource or a batch of
\* up to MaxBatch, with and without `included` and `meta`, with and without
\* the translation of keys.
BatchInputs ==
    {[document |-> doc, context |-> ResourceView(method, resource_name),
      format_keys |-> fk] :
        doc \in {Update(Update([data |-> data], included), meta) :
                    data \in {One(obj) : obj \in PrimaryObjects}
                             \cup {Many(objs) : objs \in SeqsUpTo(PrimaryObjects, MaxBatch)},
                    included \in {EmptyDict,
                                  [included |-> <<[type |-> "a", id |-> "1",
                                                   attributes |-> [name |-> "Dan"]]>>]},
                    meta \in {EmptyDict, [meta |-> [count |-> "1"]]}},
        method \in Methods, resource_name \in ResourceNames, fk \in BOOLEAN}

\* Requests on a relationship endpoint, and a document without primary data.
RelationshipInputs ==
    {[document |-> doc,
      context |-> [view |-> "RelationshipView", method |-> "PATCH",
                   resource_name |-> [str |-> "a"]],
      format_keys |-> FALSE] :
        doc \in {[data |-> data] :
                    data \in {One(obj) : obj \in IdentifierObjects}
                             \cup {Many(objs) : objs \in SeqsUpTo(IdentifierObjects, MaxBatch)}}
                \cup {[meta |-> [count |-> "1"]]}}

Inputs == CompoundInputs \cup BatchInputs \cup RelationshipInputs

-----------------------------------------------------------------------------
(* The static methods of JSONParser. *)

\* the key create_naive_included_map stores an element of `included` under
Key(obj) == <<obj.type, obj.id>>

\* obj['type'] or obj['id'] of some element raises KeyError
RaisesKeyError(included) ==
    \E n \in DOMAIN included : ~({"type", "id"} \subseteq DOMAIN included[n])

\* the loop of create_naive_included_map over the first n elements: a later
\* element replaces an earlier one stored under the same key
RECURSIVE NaiveIncludedMap(_, _)
NaiveIncludedMap(included, n) ==
    IF n = 0 THEN EmptyDict
    ELSE Update(NaiveIncludedMap(included, n - 1), Key(included[n]) :> n)

\* get_included_object with included_map.get((_type, _id)) given no default:
\* a relation that points to no included object becomes None
GetIncludedObjectNoDefault(map, relation) ==
    IF "type" \in DOMAIN relation /\ "id" \in DOMAIN relation
    THEN IF Key(relation) \in DOMAIN map THEN Ref(map[Key(relation)])
         ELSE [null |-> PyNone]
    ELSE relation

\* the included object a relation points to, or the relation itself
GetIncludedObject(map, relation) ==
    IF "type" \in DOMAIN relation /\ "id" \in DOMAIN relation
    THEN IF Key(relation) \in DOMAIN map THEN Ref(map[Key(relation)]) ELSE relation
    ELSE relation

\* a linkage with its identifiers replaced by the objects of `map`
Canonical(map, linkage) ==
    CASE IsDict(linkage) -> [dict |-> GetIncludedObject(map, linkage.dict)]
      [] IsList(linkage) ->
            [list |-> [n \in DOMAIN linkage.list |->
                          GetIncludedObject(map, linkage.list[n])]]
      [] OTHER -> linkage

\* the first loop of create_included_map writing the resolved linkages to a
\* copy of the relationships: obj keeps the identifiers it was received with
ResolveRelationshipsOnCopy(obj, map) == obj

\* the body of the first loop of create_included_map for one object:
\* field_data['data'] is assigned in place for every relationship of obj
ResolveRelationships(obj, map) ==
    IF ~TruthyDict(obj, "relationships") THEN obj
    ELSE [obj EXCEPT !.relationships =
            [field_name \in DOMAIN @ |->
                [@[field_name] EXCEPT !.data = Canonical(map, @)]]]

\* utils.format_keys(obj, 'underscore') on the keys the documents use
\* (the values, and the members `data`, `type` and `id` below a relationship,
\* are written in lower case without a dash and stay as they are)
Underscored == "first-name" :> "first_name"

Underscore(key) == IF key \in DOMAIN Underscored THEN Underscored[key] ELSE key

FormatKeys(dict) ==
    [key \in {Underscore(wire) : wire \in DOMAIN dict} |->
        dict[CHOOSE wire \in DOMAIN dict : Underscore(wire) = key]]

ParseAttributes(data, uses_format_translation) ==
    IF ~TruthyDict(data, "attributes") THEN EmptyDict
    ELSE IF uses_format_translation THEN FormatKeys(data.attributes)
    ELSE data.attributes

ParseRelationships(data, map, uses_format_translation) ==
    LET relationships ==
            IF ~TruthyDict(data, "relationships") THEN EmptyDict
            ELSE IF uses_format_translation THEN FormatKeys(data.relationships)
            ELSE data.relationships
    IN  [field_name \in DOMAIN relationships |->
            Canonical(map, relationships[field_name].data)]

ParseMetadata(document) ==
    IF TruthyDict(document, "meta") THEN [_meta |-> document.meta] ELSE EmptyDict

\* {'id': obj.get('id')} if 'id' in obj else {}, then result['type'] = ...
IdAndType(obj) ==
    Update(IF "id" \in DOMAIN obj THEN [id |-> obj.id] ELSE EmptyDict,
           [type |-> Get(obj, "type")])

\* the dict the second loop of create_included_map builds for the object at
\* `address`; its 'relationships' is the very dict of that object
IncludedRecord(obj, address, uses_format_translation) ==
    Update(Update(IdAndType(obj), ParseAttributes(obj, uses_format_translation)),
           IF "relationships" \in DOMAIN obj
           THEN [relationships |-> [relationships_of |-> address]]
           ELSE EmptyDict)

\* the record parse builds for one primary resource object
ParsedObject(obj, map, document, uses_format_translation) ==
    Update(Update(Update(IdAndType(obj),
                         ParseAttributes(obj, uses_format_translation)),
                  ParseRelationships(obj, map, uses_format_translation)),
           ParseMetadata(document))

\* the test that raises exceptions.Conflict for one resource object
TypeConflict(obj, method, resource_name) ==
    /\ method \in {"PUT", "POST", "PATCH"}
    /\ IF DOMAIN resource_name = {"str"}
       THEN Get(obj, "type") # resource_name.str
       ELSE PyNotEqual([str |-> Get(obj, "type")], resource_name)

\* the relationship branch of parse testing 'id' in obj and 'type' in obj
ValidIdentifierObjectIfPresent(obj) == "id" \in DOMAIN obj /\ "type" \in DOMAIN obj

\* a resource identifier object the relationship branch of parse accepts
ValidIdentifierObject(obj) == Truthy(Get(obj, "id")) /\ Truthy(Get(obj, "type"))

\* the primary data as a sequence of objects
Items(data) == IF IsList(data) THEN data.list ELSE <<data.dict>>

-----------------------------------------------------------------------------
(* The state after the request body was decoded, before parse looks at it. *)

Init ==
    /\ \E input \in Inputs :
        /\ result = input.document
        /\ parser_context = input.context
        /\ format_keys = input.format_keys
        /\ heap = IF "included" \in DOMAIN input.document
                  THEN input.document.included ELSE <<>>
    /\ naive_map = EmptyDict
    /\ included_map = EmptyDict
    /\ todo = {}
    /\ i = 1
    /\ parsed_data = <<>>
    /\ returned = [nothing |-> PyNone]
    /\ error = "none"
    /\ pc = "parse"

-----------------------------------------------------------------------------
(* parse, step by step. *)

Raise(exception) ==
    /\ error' = exception
    /\ pc' = "done"

\* lines 139-149: the document must hold primary data; the view decides the branch
ParseDocument ==
    /\ pc = "parse"
    /\ IF "data" \notin DOMAIN result
       THEN Raise("ParseError")
       ELSE /\ pc' = IF parser_context.view = "RelationshipView"
                     THEN "relationship" ELSE "create_naive_included_map"
            /\ UNCHANGED error
    /\ UNCHANGED <<result, parser_context, format_keys, heap, naive_map,
                   included_map, todo, i, parsed_data, returned>>

\* lines 150-165: a relationship endpoint takes resource identifier objects
ParseRelationshipView ==
    /\ pc = "relationship"
    /\ IF \A n \in DOMAIN Items(result.data) : ValidIdentifierObject(Items(result.data)[n])
       THEN /\ returned' = result.data
            /\ pc' = "done"
            /\ UNCHANGED error
       ELSE /\ Raise("ParseError")
            /\ UNCHANGED returned
    /\ UNCHANGED <<result, parser_context, format_keys, heap, naive_map,
                   included_map, todo, i, parsed_data>>

\* lines 57 and 33-42
CreateNaiveIncludedMap ==
    /\ pc = "create_naive_included_map"
    /\ IF RaisesKeyError(heap)
       THEN /\ Raise("KeyError")
            /\ UNCHANGED <<naive_map, todo>>
       ELSE /\ naive_map' = NaiveIncludedMap(heap, Len(heap))
            /\ todo' = DOMAIN naive_map'
            /\ pc' = "resolve"
            /\ UNCHANGED error
    /\ UNCHANGED <<result, parser_context, format_keys, heap, included_map, i,
                   parsed_data, returned>>

\* lines 60-75, one turn of the loop: the dict gives its items in any order
ResolveEntry ==
    /\ pc = "resolve"
    /\ \E key \in todo :
        /\ heap' = [heap EXCEPT ![naive_map[key]] = ResolveRelationships(@, naive_map)]
        /\ todo' = todo \ {key}
    /\ UNCHANGED <<result, parser_context, format_keys, naive_map, included_map,
                   i, parsed_data, returned, error, pc>>

\* line 77: the first loop is over, the second starts
ResolveDone ==
    /\ pc = "resolve"
    /\ todo = {}
    /\ todo' = DOMAIN naive_map
    /\ pc' = "assemble"
    /\ UNCHANGED <<result, parser_context, format_keys, heap, naive_map,
                   included_map, i, parsed_data, returned, error>>

\* create_included_map with one loop for both jobs: an entry may be read out
\* while others are not rewritten yet
AssembleEntryEarly ==
    /\ pc \in {"resolve", "assemble"}
    /\ \E key \in (IF pc = "resolve" THEN DOMAIN naive_map \ DOMAIN included_map
                     ELSE todo) :
        /\ heap' = Append(heap, IncludedRecord(heap[naive_map[key]], naive_map[key],
                                               format_keys))
        /\ included_map' = Update(included_map, key :> Len(heap) + 1)
        /\ todo' = IF pc = "resolve" THEN todo ELSE todo \ {key}
    /\ UNCHANGED <<result, parser_context, format_keys, naive_map, i,
                   parsed_data, returned, error, pc>>

\* lines 78-84, one turn of the loop: a new dict is stored under the key
AssembleEntry ==
    /\ pc = "assemble"
    /\ \E key \in todo :
        /\ heap' = Append(heap, IncludedRecord(heap[naive_map[key]], naive_map[key],
                                               format_keys))
        /\ included_map' = Update(included_map, key :> Len(heap) + 1)
        /\ todo' = todo \ {key}
    /\ UNCHANGED <<result, parser_context, format_keys, naive_map, i,
                   parsed_data, returned, error, pc>>

\* lines 85 and 168: create_included_map returns
AssembleDone ==
    /\ pc = "assemble"
    /\ todo = {}
    /\ i' = 1
    /\ pc' = "check"
    /\ UNCHANGED <<result, parser_context, format_keys, heap, naive_map,
                   included_map, todo, parsed_data, returned, error>>

\* lines 173-192 (one turn of the loop) and 204-222
CheckType ==
    /\ pc = "check"
    /\ i <= Len(Items(result.data))
    /\ IF TypeConflict(Items(result.data)[i], parser_context.method,
                       parser_context.resource_name)
       THEN /\ Raise("Conflict")
            /\ UNCHANGED i
       ELSE /\ i' = i + 1
            /\ UNCHANGED <<error, pc>>
    /\ UNCHANGED <<result, parser_context, format_keys, heap, naive_map,
                   included_map, todo, parsed_data, returned>>

\* lines 193 and 223: every object passed the check
CheckDone ==
    /\ pc = "check"
    /\ i > Len(Items(result.data))
    /\ i' = 1
    /\ pc' = "build"
    /\ UNCHANGED <<result, parser_context, format_keys, heap, naive_map,
                   included_map, todo, parsed_data, returned, error>>

\* parse with parsed_data.insert(0, parsed_object) for parsed_data.append
BuildRecordPrepend ==
    /\ pc = "build"
    /\ i <= Len(Items(result.data))
    /\ parsed_data' = <<ParsedObject(Items(result.data)[i], included_map,
                                     result, format_keys)>> \o parsed_data
    /\ i' = i + 1
    /\ UNCHANGED <<result, parser_context, format_keys, heap, naive_map,
                   included_map, todo, returned, error, pc>>

\* lines 194-200 (one turn of the loop) and 224-228
BuildRecord ==
    /\ pc = "build"
    /\ i <= Len(Items(result.data))
    /\ parsed_data' = Append(parsed_data,
                             ParsedObject(Items(result.data)[i], included_map,
                                          result, format_keys))
    /\ i' = i + 1
    /\ UNCHANGED <<result, parser_context, format_keys, heap, naive_map,
                   included_map, todo, returned, error, pc>>

\* lines 201 and 229
Return ==
    /\ pc = "build"
    /\ i > Len(Items(result.data))
    /\ returned' = IF IsList(result.data)
                   THEN [list |-> parsed_data]
                   ELSE [dict |-> parsed_data[1]]
    /\ pc' = "done"
    /\ UNCHANGED <<result, parser_context, format_keys, heap, naive_map,
                   included_map, todo, i, parsed_data, error>>

Next ==
    \/ ParseDocument
    \/ ParseRelationshipView
    \/ CreateNaiveIncludedMap
    \/ ResolveEntry
    \/ ResolveDone
    \/ AssembleEntry
    \/ AssembleDone
    \/ CheckType
    \/ CheckDone
    \/ BuildRecord
    \/ Return

Spec == Init /\ [][Next]_vars

-----------------------------------------------------------------------------
(* What the properties below speak of. *)

OnResourceEndpoint == parser_context.view = "ResourceView" /\ "data" \in DOMAIN result

OnRelationshipEndpoint ==
    parser_context.view = "RelationshipView" /\ "data" \in DOMAIN result

\* the `included` member as the document was received
Included == IF "included" \in DOMAIN result THEN result.included ELSE <<>>

Relationships(obj) == IF "relationships" \in DOMAIN obj THEN obj.relationships ELSE EmptyDict

HasKey(target) == {"type", "id"} \subseteq DOMAIN target

\* the key a relationship of a primary resource has in its record
FieldKey(field_name) == IF format_keys THEN Underscore(field_name) ELSE field_name

\* the linkage of relationship field_name in the record of the j-th primary resource
ParsedLinkage(j, field_name) == parsed_data[j][FieldKey(field_name)]

\* the linkage of relationship field_name of the included object at address n:
\* as received, and as it is now
ReceivedLinkage(n, field_name) == Included[n].relationships[field_name].data

CurrentLinkage(n, field_name) == heap[n].relationships[field_name].data

\* the first loop of create_included_map has visited every entry
FirstPassOver == pc \in {"assemble", "check", "build"} \/ (pc = "done" /\ error # "KeyError")

\* original and resolved are one linkage before and after resolution against
\* `map`, and every identifier of it that `map` holds became the object at
\* expected[that identifier]
ResolvesTo(original, resolved, map, expected) ==
    /\ DOMAIN resolved = DOMAIN original
    /\ IsDict(original) /\ HasKey(original.dict) /\ Key(original.dict) \in DOMAIN map
        => resolved.dict = Ref(expected[Key(original.dict)])
    /\ IsList(original) =>
        /\ DOMAIN resolved.list = DOMAIN original.list
        /\ \A n \in DOMAIN original.list :
            HasKey(original.list[n]) /\ Key(original.list[n]) \in DOMAIN map
                => resolved.list[n] = Ref(expected[Key(original.list[n])])

\* original and resolved are one linkage before and after resolution against
\* `map`, and every identifier of it that `map` does not hold is unchanged
PassesThrough(original, resolved, map) ==
    /\ DOMAIN resolved = DOMAIN original
    /\ IsDict(original) /\ ~(HasKey(original.dict) /\ Key(original.dict) \in DOMAIN map)
        => resolved.dict = original.dict
    /\ IsList(original) =>
        /\ DOMAIN resolved.list = DOMAIN original.list
        /\ \A n \in DOMAIN original.list :
            ~(HasKey(original.list[n]) /\ Key(original.list[n]) \in DOMAIN map)
                => resolved.list[n] = original.list[n]
    /\ ~IsDict(original) /\ ~IsList(original) => resolved = original

-----------------------------------------------------------------------------
(* C1 *)

\* C1: after parse on a resource endpoint, every relationship linkage that
\* points to an identifier of `included`, in a primary resource or in an
\* included resource, is the very object included_map holds under that
\* identifier.
C1_LinkagesAreTheIndexEntries ==
    OnResourceEndpoint /\ pc = "done" /\ error = "none" =>
        /\ \A j \in DOMAIN parsed_data :
            \A field_name \in DOMAIN Relationships(Items(result.data)[j]) :
                ResolvesTo(Items(result.data)[j].relationships[field_name].data,
                           ParsedLinkage(j, field_name), included_map, included_map)
        /\ \A key \in DOMAIN included_map :
            \A field_name \in DOMAIN Relationships(Included[naive_map[key]]) :
                ResolvesTo(ReceivedLinkage(naive_map[key], field_name),
                           CurrentLinkage(naive_map[key], field_name),
                           included_map, included_map)

-----------------------------------------------------------------------------
(* C2 *)

\* the names an endpoint accepts
AllowedNames(resource_name) ==
    IF DOMAIN resource_name = {"str"} THEN {resource_name.str} ELSE Range(resource_name.list)

\* C2: on a resource endpoint whose `included` is well formed, parse raises
\* Conflict if and only if the method is PUT, POST or PATCH and some primary
\* resource object declares a type that is not among the allowed names.
C2_ConflictIffTypeNotAllowed ==
    OnResourceEndpoint /\ pc = "done" /\ error # "KeyError" =>
        (error = "Conflict" <=>
            /\ parser_context.method \in {"PUT", "POST", "PATCH"}
            /\ \E j \in DOMAIN Items(result.data) :
                Get(Items(result.data)[j], "type")
                    \notin AllowedNames(parser_context.resource_name))

-----------------------------------------------------------------------------
(* C3 *)

\* C3: a linkage whose identifier is not a key of the index is left as it was
\* received, in the included objects and in the records of the primary
\* resources, and no error comes with it; when `included` is absent or empty,
\* every relationship of every record is the linkage as received.
C3_UnknownIdentifiersPassThrough ==
    /\ \A j \in DOMAIN parsed_data :
        \A field_name \in DOMAIN Relationships(Items(result.data)[j]) :
            /\ PassesThrough(Items(result.data)[j].relationships[field_name].data,
                             ParsedLinkage(j, field_name), included_map)
            /\ Included = <<>> =>
                ParsedLinkage(j, field_name)
                    = Items(result.data)[j].relationships[field_name].data
    /\ \A key \in DOMAIN naive_map :
        \A field_name \in DOMAIN Relationships(Included[naive_map[key]]) :
            PassesThrough(ReceivedLinkage(naive_map[key], field_name),
                          CurrentLinkage(naive_map[key], field_name), naive_map)
    /\ parsed_data # <<>> => error = "none"

\* parse returned a record with a to-one relationship to a resource that is
\* not included and one with a to-many relationship of which only the first
\* resource is included
C3_Witness ==
    /\ pc = "done"
    /\ IsList(returned)
    /\ Len(returned.list) = 2
    /\ "author" \in DOMAIN returned.list[1]
    /\ returned.list[1].author = [dict |-> Identifier("c", "9")]
    /\ "authors" \in DOMAIN returned.list[2]
    /\ IsRef(returned.list[2].authors.list[1])
    /\ returned.list[2].authors.list[2] = Identifier("c", "9")

-----------------------------------------------------------------------------
(* C4 *)

\* member `key` of obj is missing
Missing(obj, key) == key \notin DOMAIN obj

\* member `key` of obj is missing, null or the empty string
MissingOrEmpty(obj, key) == key \notin DOMAIN obj \/ obj[key] = PyNone \/ obj[key] = ""

\* C4 as stated: on a relationship endpoint parse raises ParseError exactly
\* when an element of the primary data has no `id` or no `type`, and returns
\* the primary data unchanged otherwise.
C4_ParseErrorIffMemberMissing ==
    OnRelationshipEndpoint /\ pc = "done" =>
        IF \E n \in DOMAIN Items(result.data) :
                Missing(Items(result.data)[n], "id") \/ Missing(Items(result.data)[n], "type")
        THEN error = "ParseError"
        ELSE error = "none" /\ returned = result.data

\* C4 as amended: on a relationship endpoint parse raises ParseError exactly
\* when an element of the primary data has an `id` or a `type` that is
\* missing, null or empty, and returns the primary data unchanged otherwise.
C4_ParseErrorIffMemberMissingOrEmpty ==
    OnRelationshipEndpoint /\ pc = "done" =>
        IF \E n \in DOMAIN Items(result.data) :
                \/ MissingOrEmpty(Items(result.data)[n], "id")
                \/ MissingOrEmpty(Items(result.data)[n], "type")
        THEN error = "ParseError" /\ returned = [nothing |-> PyNone]
        ELSE error = "none" /\ returned = result.data

\* parse raised ParseError for a sequence of two identifier objects that all
\* have both members, the second with an empty `id`
C4_Witness ==
    /\ OnRelationshipEndpoint
    /\ pc = "done"
    /\ error = "ParseError"
    /\ result.data = Many(<<Identifier("tags", "1"), Identifier("tags", "")>>)

-----------------------------------------------------------------------------
(* C5 *)

\* C5: on a resource endpoint, parse of a document of which an element of
\* `included` lacks `type` or `id` raises ParseError.
C5_MalformedIncludedIsParseError ==
    /\ OnResourceEndpoint
    /\ pc = "done"
    /\ \E n \in DOMAIN Included : ~HasKey(Included[n])
    => error = "ParseError"

-----------------------------------------------------------------------------
(* C6 *)

\* C6: the record of a primary resource object has the key `id` exactly when
\* the object has one, with the same value, and always has the key `type`
\* with the type the object declares.
C6_RecordCarriesIdAndType ==
    \A j \in DOMAIN parsed_data :
        LET obj == Items(result.data)[j]
            record == parsed_data[j]
        IN  /\ "id" \in DOMAIN record <=> "id" \in DOMAIN obj
            /\ "id" \in DOMAIN obj => record.id = obj.id
            /\ "type" \in DOMAIN record
            /\ record.type = obj.type

-----------------------------------------------------------------------------
(* C7 *)

\* C7: every entry of the index create_included_map returns is stored under
\* the key made of its own `type` and `id`.
C7_EntryMatchesItsKey ==
    \A key \in DOMAIN included_map :
        /\ heap[included_map[key]].type = key[1]
        /\ heap[included_map[key]].id = key[2]

-----------------------------------------------------------------------------
(* C8 *)

\* the included object at address n was received with a relationship `peer`
\* that links to the identifier `key`
PeerLinksTo(n, key) ==
    /\ "peer" \in DOMAIN Relationships(Included[n])
    /\ ReceivedLinkage(n, "peer") = [dict |-> Identifier(key[1], key[2])]

\* what the relationship `peer` of the object at address n holds now
Peer(n) == CurrentLinkage(n, "peer").dict

\* C8: the first loop of create_included_map visits every entry once and
\* touches no entry before its turn; when it is over, for included resources
\* a and b whose `peer` relationships link to each other (or a = b, linking
\* to itself), a's peer is an object of the heap, and it is the same object
\* as the peer of b's peer.
C8_CycleClosesInOnePass ==
    /\ pc = "resolve" =>
        /\ todo \subseteq DOMAIN naive_map
        /\ \A key \in todo : heap[naive_map[key]] = Included[naive_map[key]]
        /\ Len(heap) = Len(Included)
    /\ FirstPassOver =>
        \A ka, kb \in DOMAIN naive_map :
            PeerLinksTo(naive_map[ka], kb) /\ PeerLinksTo(naive_map[kb], ka) =>
                /\ IsRef(Peer(naive_map[ka]))
                /\ IsRef(Peer(naive_map[kb]))
                /\ Peer(naive_map[ka]) = Peer(Peer(naive_map[kb]).ref)

\* parse is over for a document whose two included resources link to each other
C8_Witness ==
    /\ pc = "done"
    /\ error = "none"
    /\ Len(Included) = 2
    /\ PeerLinksTo(1, <<"b", "2">>)
    /\ PeerLinksTo(2, <<"a", "1">>)
    /\ Peer(1) = Ref(2)
    /\ Peer(2) = Ref(1)

-----------------------------------------------------------------------------
(* C9 *)

\* an index entry was read to build a dict of included_map, or a record
ConsumptionStarted ==
    \/ DOMAIN included_map # {}
    \/ Len(heap) > Len(Included)
    \/ parsed_data # <<>>

\* no relationship of the object at address n still holds a bare identifier
\* of an included resource
EntryResolved(n) ==
    \A field_name \in DOMAIN Relationships(heap[n]) :
        LET linkage == CurrentLinkage(n, field_name)
        IN  /\ IsDict(linkage) =>
                ~(HasKey(linkage.dict) /\ Key(linkage.dict) \in DOMAIN naive_map)
            /\ IsList(linkage) =>
                \A m \in DOMAIN linkage.list :
                    ~(HasKey(linkage.list[m]) /\ Key(linkage.list[m]) \in DOMAIN naive_map)

\* C9: once any entry of the index has been read to assemble a dict of
\* included_map or the record of a primary resource, the in-place rewrite of
\* every entry is complete, whatever the order the entries are visited in.
C9_ResolutionBeforeConsumption ==
    ConsumptionStarted =>
        /\ pc \notin {"parse", "create_naive_included_map", "resolve"}
        /\ \A key \in DOMAIN naive_map : EntryResolved(naive_map[key])

\* parse returned a record, from an index of two entries whose received
\* relationships both were rewritten
C9_Witness ==
    /\ pc = "done"
    /\ Len(parsed_data) > 0
    /\ Cardinality(DOMAIN included_map) = 2
    /\ \A key \in DOMAIN naive_map : heap[naive_map[key]] # Included[naive_map[key]]

-----------------------------------------------------------------------------
(* C10 *)

\* C10: on a resource endpoint with a sequence of N primary resource objects,
\* a parse that does not fail returns N records, the k-th built from the k-th
\* object; when an object fails the type check parse raises Conflict; and a
\* parse that fails returns nothing and has built no record.
C10_BatchInOrderOrNothing ==
    OnResourceEndpoint /\ IsList(result.data) /\ pc = "done" =>
        /\ error = "none" =>
            /\ IsList(returned)
            /\ Len(returned.list) = Len(result.data.list)
            /\ \A n \in DOMAIN result.data.list :
                returned.list[n] = ParsedObject(result.data.list[n], included_map,
                                                result, format_keys)
        /\ (error # "KeyError" /\ \E n \in DOMAIN result.data.list :
                TypeConflict(result.data.list[n], parser_context.method,
                             parser_context.resource_name))
            => error = "Conflict"
        /\ error # "none" => returned = [nothing |-> PyNone] /\ parsed_data = <<>>

\* parse returned two different records for a batch of two resource objects
C10_Witness ==
    /\ OnResourceEndpoint
    /\ pc = "done"
    /\ IsList(returned)
    /\ Len(returned.list) = 2
    /\ returned.list[1] # returned.list[2]

=============================================================================
